---- MODULE Spec2Model ----
(***************************************************************************)
(* ReasonForge: the response normalizer, the analysis session store and    *)
(* the view controller of the two page components of the repository:       *)
(*   - the consolidated flow, ReasonForgeAI  (src/app/page.tsx)             *)
(*   - the decomposed flow,   ReasonForge    (src/unnamed/part_000)         *)
(*                                                                         *)
(* JavaScript values are modelled as tagged records, one field name per    *)
(* JavaScript type, strings as TLA+ strings read character by character.   *)
(* The backtick character cannot be written in a TLA+ string literal; the  *)
(* model writes it as BT.                                                  *)
(***************************************************************************)
EXTENDS Integers, Sequences, FiniteSets, TLC

(***************************************************************************)
(* JavaScript values                                                       *)
(***************************************************************************)
Undefined == [undef |-> TRUE]

Null == [null |-> TRUE]

Bool(b) == [bool |-> b]

Num(n) == [num |-> n]

Str(s) == [str |-> s]

Arr(a) == [arr |-> a]

Obj(p) == [obj |-> p]

IsUndefined(v) == DOMAIN v = {"undef"}

IsNull(v) == DOMAIN v = {"null"}

IsBool(v) == DOMAIN v = {"bool"}

IsNum(v) == DOMAIN v = {"num"}

IsStr(v) == DOMAIN v = {"str"}

IsArr(v) == DOMAIN v = {"arr"}

IsObj(v) == DOMAIN v = {"obj"}

IsNullish(v) == IsUndefined(v) \/ IsNull(v)

\* typeof v
TypeOf(v) ==
  IF IsStr(v) THEN "string"
  ELSE IF IsNum(v) THEN "number"
  ELSE IF IsBool(v) THEN "boolean"
  ELSE IF IsUndefined(v) THEN "undefined"
  ELSE "object"

\* ToBoolean(v): the falsy values are undefined, null, false, 0 and ""
Truthy(v) ==
  IF IsNullish(v) THEN FALSE
  ELSE IF IsBool(v) THEN v.bool
  ELSE IF IsNum(v) THEN v.num # 0
  ELSE IF IsStr(v) THEN v.str # ""
  ELSE TRUE

\* a || b
OrElse(a, b) == IF Truthy(a) THEN a ELSE b

\* o.k for a value o that is not null or undefined (those throw a TypeError,
\* which the callers model): own property k of an object, undefined otherwise
RECURSIVE Lookup(_, _, _)
Lookup(p, k, i) ==
  IF i > Len(p) THEN Undefined
  ELSE IF p[i][1] = k THEN p[i][2]
  ELSE Lookup(p, k, i + 1)

Get(o, k) == IF IsObj(o) THEN Lookup(o.obj, k, 1) ELSE Undefined

\* o?.k
GetOpt(o, k) == IF IsNullish(o) THEN Undefined ELSE Get(o, k)

Has(o, k) == IsObj(o) /\ \E i \in 1..Len(o.obj) : o.obj[i][1] = k

\* { ...o, k: v } on the property list of o: an existing key keeps its place
Put(p, k, v) ==
  IF \E i \in 1..Len(p) : p[i][1] = k
    THEN [i \in 1..Len(p) |-> IF p[i][1] = k THEN <<k, v>> ELSE p[i]]
    ELSE Append(p, <<k, v>>)

(***************************************************************************)
(* Strings                                                                 *)
(***************************************************************************)
\* the backtick character
BT == "^"

Fence == BT \o BT \o BT

Ch(s, i) == SubSeq(s, i, i)

From(s, i) == SubSeq(s, i, Len(s))

IsWs(c) == c \in {" ", "\n", "\t", "\r"}

IsDigit(c) == c \in {"0", "1", "2", "3", "4", "5", "6", "7", "8", "9"}

StartsWithAt(s, i, p) ==
  i + Len(p) - 1 <= Len(s) /\ SubSeq(s, i, i + Len(p) - 1) = p

RECURSIVE TrimStart(_)
TrimStart(s) ==
  IF s # "" /\ IsWs(Ch(s, 1)) THEN TrimStart(From(s, 2)) ELSE s

RECURSIVE TrimEnd(_)
TrimEnd(s) ==
  IF s # "" /\ IsWs(Ch(s, Len(s))) THEN TrimEnd(SubSeq(s, 1, Len(s) - 1)) ELSE s

\* s.trim()
Trim(s) == TrimEnd(TrimStart(s))

\* s.includes(p)
Includes(s, p) == \E i \in 1..(Len(s) + 1) : StartsWithAt(s, i, p)

\* s.replace(/<pat>\n?/g, ''), scanning s from index i: every
\* non-overlapping occurrence of pat, with the newline after it when there
\* is one, is removed, leftmost first
RECURSIVE ReplaceFrom(_, _, _)
ReplaceFrom(s, i, pat) ==
  LET hits == {k \in i..Len(s) : StartsWithAt(s, k, pat)}
  IN  IF hits = {} THEN SubSeq(s, i, Len(s))
      ELSE LET k == CHOOSE k \in hits : \A m \in hits : k <= m
               j == k + Len(pat)
           IN  SubSeq(s, i, k - 1)
                 \o ReplaceFrom(s, IF j <= Len(s) /\ Ch(s, j) = "\n" THEN j + 1 ELSE j, pat)

ReplaceAll(s, pat) == ReplaceFrom(s, 1, pat)

DigitOf(c) ==
  CASE c = "0" -> 0 [] c = "1" -> 1 [] c = "2" -> 2 [] c = "3" -> 3
    [] c = "4" -> 4 [] c = "5" -> 5 [] c = "6" -> 6 [] c = "7" -> 7
    [] c = "8" -> 8 [] c = "9" -> 9

\* n.toString() for an integer n
RECURSIVE NatToString(_)
NatToString(n) ==
  IF n < 10 THEN Ch("0123456789", n + 1)
  ELSE NatToString(n \div 10) \o Ch("0123456789", (n % 10) + 1)

NumToString(n) == IF n < 0 THEN "-" \o NatToString(0 - n) ELSE NatToString(n)

(***************************************************************************)
(* JSON.parse and JSON.stringify                                           *)
(*                                                                         *)
(* The grammar is JSON's with integer numbers and the string escapes       *)
(* \" \\ \/ \n \t \r; the texts the model feeds to the parser stay inside   *)
(* that grammar or are malformed for the full grammar too.                 *)
(***************************************************************************)
At(s, i) == IF i >= 1 /\ i <= Len(s) THEN Ch(s, i) ELSE ""

ParseFail(i) == [ok |-> FALSE, val |-> Undefined, next |-> i]

ParseOk(v, j) == [ok |-> TRUE, val |-> v, next |-> j]

RECURSIVE SkipWs(_, _)
SkipWs(s, i) == IF IsWs(At(s, i)) THEN SkipWs(s, i + 1) ELSE i

\* the characters of a string literal after its opening quote
RECURSIVE ScanString(_, _, _)
ScanString(s, j, acc) ==
  LET c == At(s, j)
      e == At(s, j + 1)
  IN  IF c = "" THEN ParseFail(j)
      ELSE IF c = "\"" THEN ParseOk(Str(acc), j + 1)
      ELSE IF c = "\\"
        THEN IF e \in {"\"", "\\", "/"} THEN ScanString(s, j + 2, acc \o e)
             ELSE IF e = "n" THEN ScanString(s, j + 2, acc \o "\n")
             ELSE IF e = "t" THEN ScanString(s, j + 2, acc \o "\t")
             ELSE IF e = "r" THEN ScanString(s, j + 2, acc \o "\r")
             ELSE ParseFail(j)
      ELSE IF c \in {"\n", "\t", "\r"} THEN ParseFail(j)
      ELSE ScanString(s, j + 1, acc \o c)

RECURSIVE ScanDigits(_, _, _)
ScanDigits(s, j, acc) ==
  IF IsDigit(At(s, j)) THEN ScanDigits(s, j + 1, 10 * acc + DigitOf(At(s, j)))
  ELSE ParseOk(Num(acc), j)

\* -?(0|[1-9][0-9]*)
ParseNumber(s, i) ==
  LET neg == At(s, i) = "-"
      j   == IF neg THEN i + 1 ELSE i
      r   == ScanDigits(s, j, 0)
  IN  IF ~IsDigit(At(s, j)) THEN ParseFail(i)
      ELSE IF At(s, j) = "0" /\ IsDigit(At(s, j + 1)) THEN ParseFail(i)
      ELSE IF neg THEN ParseOk(Num(0 - r.val.num), r.next)
      ELSE r

RECURSIVE ParseValue(_, _)
RECURSIVE ParseElements(_, _, _)
RECURSIVE ParseMembers(_, _, _)

ParseValue(s, i0) ==
  LET i == SkipWs(s, i0)
      c == At(s, i)
  IN  IF c = "{"
        THEN LET j == SkipWs(s, i + 1)
             IN  IF At(s, j) = "}" THEN ParseOk(Obj(<<>>), j + 1)
                 ELSE ParseMembers(s, j, <<>>)
      ELSE IF c = "["
        THEN LET j == SkipWs(s, i + 1)
             IN  IF At(s, j) = "]" THEN ParseOk(Arr(<<>>), j + 1)
                 ELSE ParseElements(s, j, <<>>)
      ELSE IF c = "\"" THEN ScanString(s, i + 1, "")
      ELSE IF c = "-" \/ IsDigit(c) THEN ParseNumber(s, i)
      ELSE IF StartsWithAt(s, i, "null") THEN ParseOk(Null, i + 4)
      ELSE IF StartsWithAt(s, i, "true") THEN ParseOk(Bool(TRUE), i + 4)
      ELSE IF StartsWithAt(s, i, "false") THEN ParseOk(Bool(FALSE), i + 5)
      ELSE ParseFail(i)

ParseElements(s, i, acc) ==
  LET v == ParseValue(s, i)
      m == SkipWs(s, v.next)
  IN  IF ~v.ok THEN ParseFail(i)
      ELSE IF At(s, m) = "," THEN ParseElements(s, m + 1, Append(acc, v.val))
      ELSE IF At(s, m) = "]" THEN ParseOk(Arr(Append(acc, v.val)), m + 1)
      ELSE ParseFail(m)

ParseMembers(s, i0, acc) ==
  LET i == SkipWs(s, i0)
      k == IF At(s, i) = "\"" THEN ScanString(s, i + 1, "") ELSE ParseFail(i)
      j == SkipWs(s, k.next)
      v == IF k.ok /\ At(s, j) = ":" THEN ParseValue(s, j + 1) ELSE ParseFail(j)
      m == SkipWs(s, v.next)
  IN  IF ~v.ok THEN ParseFail(i)
      ELSE IF At(s, m) = "," THEN ParseMembers(s, m + 1, Put(acc, k.val.str, v.val))
      ELSE IF At(s, m) = "}" THEN ParseOk(Obj(Put(acc, k.val.str, v.val)), m + 1)
      ELSE ParseFail(m)

\* the value r read from the start of text is the whole of text
WholeText(text, r) ==
  IF r.ok /\ SkipWs(text, r.next) > Len(text)
    THEN [ok |-> TRUE, val |-> r.val]
    ELSE [ok |-> FALSE, val |-> Undefined]

\* JSON.parse(text): ok is FALSE when it throws a SyntaxError
JSONParse(text) == WholeText(text, ParseValue(text, 1))

RECURSIVE Escape(_)
Escape(s) ==
  IF s = "" THEN ""
  ELSE LET c == Ch(s, 1)
       IN  (IF c = "\"" THEN "\\\""
            ELSE IF c = "\\" THEN "\\\\"
            ELSE IF c = "\n" THEN "\\n"
            ELSE IF c = "\t" THEN "\\t"
            ELSE IF c = "\r" THEN "\\r"
            ELSE c) \o Escape(From(s, 2))

Quote(s) == "\"" \o Escape(s) \o "\""

RECURSIVE Ser(_)
RECURSIVE SerElements(_, _)
RECURSIVE SerMembers(_, _, _)

Ser(v) ==
  IF IsNull(v) \/ IsUndefined(v) THEN "null"
  ELSE IF IsBool(v) THEN (IF v.bool THEN "true" ELSE "false")
  ELSE IF IsNum(v) THEN NumToString(v.num)
  ELSE IF IsStr(v) THEN Quote(v.str)
  ELSE IF IsArr(v) THEN "[" \o SerElements(v.arr, 1) \o "]"
  ELSE "{" \o SerMembers(v.obj, 1, TRUE) \o "}"

SerElements(a, i) ==
  IF i > Len(a) THEN ""
  ELSE (IF i > 1 THEN "," ELSE "") \o Ser(a[i]) \o SerElements(a, i + 1)

\* a property whose value is undefined is left out
SerMembers(p, i, first) ==
  IF i > Len(p) THEN ""
  ELSE IF IsUndefined(p[i][2]) THEN SerMembers(p, i + 1, first)
  ELSE (IF first THEN "" ELSE ",") \o Quote(p[i][1]) \o ":" \o Ser(p[i][2])
         \o SerMembers(p, i + 1, FALSE)

\* JSON.stringify(v)
JSONStringify(v) == IF IsUndefined(v) THEN Undefined ELSE Str(Ser(v))

(***************************************************************************)
(* Bounds of the model                                                     *)
(***************************************************************************)
\* records the history may hold
MaxHistory == 2

\* last value of the wall clock
MaxClock == 2

\* challenge calls that may be in flight before the buttons stop answering
MaxChallengeCalls == 2

(***************************************************************************)
(* Constants of the program                                                *)
(***************************************************************************)
MinProblemLength == 10

MinLengthAlert == "Please enter a problem statement (minimum 10 characters)"

FailedAlert == "Analysis failed. Please try again."

CausalPrompt == "Analyze the causal relationships in this problem: "

ValidationPrompt == "Validate the reasoning in this problem: "

UncertaintyPrompt == "Quantify the uncertainty in this analysis: "

REASONING_ORCHESTRATOR_ID == "69858540b90162af337b1e2d"

REASONING_CHALLENGER_ID == "69858572ab4bf65a66ad076c"

\* the ids with the validator and the quantifier taken for each other
AGENT_IDS_Swapped ==
  [causalAnalysis |-> "698584ddc613a65b3c4193c4",
   commonSenseValidator |-> "69858517ab4bf65a66ad0765",
   uncertaintyQuantifier |-> "698584fc49f279d47448a5b9",
   reasoningChallenger |-> "69858572ab4bf65a66ad076c"]

AGENT_IDS ==
  [causalAnalysis |-> "698584ddc613a65b3c4193c4",
   commonSenseValidator |-> "698584fc49f279d47448a5b9",
   uncertaintyQuantifier |-> "69858517ab4bf65a66ad0765",
   reasoningChallenger |-> "69858572ab4bf65a66ad076c"]

\* `Challenge this conclusion: "${conclusion}"\n\nOriginal problem: ${currentProblem}`
ChallengePrompt(conclusion, problem) ==
  "Challenge this conclusion: \"" \o conclusion \o "\"\n\nOriginal problem: " \o problem

ClaimPrompt == "Challenge this claim and provide alternative explanations: "

Variants == {"consolidated", "decomposed"}

(***************************************************************************)
(* State                                                                   *)
(***************************************************************************)
VARIABLES
  variant,          \* which page component is mounted
  phase,            \* "load", "save", "apply": the mount effects still to
                    \* run; "ready"; "crashed": a render threw
  queued,           \* the state update queued by the load effect
  analysisHistory,  \* useState<AnalysisItem[]>     (history in part_000)
  slot,             \* localStorage item of the history key
  currentProblem,   \* useState('')                 (problemInput in part_000)
  isAnalyzing,      \* useState(false)
  currentAnalysis,  \* useState(null)
  clock,            \* Date.now()
  call,             \* the gateway call of the running submit handler
  lastAlert,        \* text of the alert() of the last handler run
  uncaught,         \* an exception left a handler
  unloaded,         \* the history in memory when the page was last left
  view,             \* useState('dashboard'): the primary view
  searchQuery,      \* useState('')
  challenge,        \* the challenge overlay: showChallengeModal,
                    \* selectedConclusion, challengeResult, isChallenging
                    \* (challengeModal, challengeLoading in part_000)
  challengeCalls,   \* the gateway calls of the running challenge handlers
  probe             \* the normalizer or the store run on its own: input, output

uiVars == <<view, searchQuery, challenge, challengeCalls>>

pageVars == <<phase, queued, analysisHistory, slot, currentProblem, isAnalyzing,
              currentAnalysis, call, lastAlert, uncaught, unloaded, uiVars>>

vars == <<variant, pageVars, clock, probe>>

NoReply == [kind |-> "none", val |-> Undefined]

Rejects == [kind |-> "reject", val |-> Undefined]

Resolves(v) == [kind |-> "resolve", val |-> v]

IdleCall ==
  [st |-> "idle", step |-> "", agent |-> "", message |-> "", id |-> Undefined,
   rec |-> Undefined, reply |-> NoReply]

NoProbe == [spec |-> "page"]

\* the workspace view is named 'workspace' by page.tsx, 'analysis' by part_000
Workspace == [consolidated |-> "workspace", decomposed |-> "analysis"]

\* the overlay as the component is constructed with it
ClosedChallenge == [isOpen |-> FALSE, claim |-> "", response |-> Null, loading |-> FALSE]

(***************************************************************************)
(* What the user types and what the gateway answers                        *)
(***************************************************************************)
ValidProblem == "Employee \"X\""

\* the texts that tell the guards of a page apart: empty, shorter than the
\* minimum, blank, long enough; the decomposed page has no minimum length
ProblemTexts ==
  [consolidated |-> {"", "short", "          ", ValidProblem},
   decomposed   |-> {"", "short", "          "}]

\* the property name: val of an object literal: left out when the name is
\* in absent, with the empty value when it is in empty
Opt(name, val, emptyVal, absent, empty) ==
  IF name \in absent THEN <<>>
  ELSE << <<name, IF name \in empty THEN emptyVal ELSE val>> >>

\* a ReasoningOrchestratorResult with overall_confidence c
OrchestratorResult(c, absent, empty) ==
  LET metrics  == Obj(<< <<"epistemic_uncertainty", Num(1)>>,
                         <<"aleatory_uncertainty", Num(1)>> >>)
      gaps     == Arr(<< Obj(<< <<"gap_id", Str("g")>> >>) >>)
      steps    == Arr(<< Str("s") >>)
      chain    == Obj(<< <<"effect", Str("E")>> >>
                      \o Opt("intermediary_steps", steps, Arr(<<>>), absent, empty))
      checks   == Arr(<< Obj(<< <<"check_id", Str("v")>> >>) >>)
      insights == Arr(<< Str("i") >>)
  IN  Obj(Opt("uncertainty_assessment",
              Obj(<< <<"overall_confidence", Num(c)>> >>
                  \o Opt("uncertainty_metrics", metrics, Obj(<<>>), absent, empty)
                  \o Opt("knowledge_gaps", gaps, Arr(<<>>), absent, empty)),
              Obj(<<>>), absent, empty)
          \o Opt("causal_analysis",
                 Obj(Opt("causal_chains", Arr(<<chain>>), Arr(<<>>), absent, empty)),
                 Obj(<<>>), absent, empty)
          \o Opt("validation_results",
                 Obj(<< <<"logical_consistency_score", Num(1)>>,
                        <<"real_world_grounding_score", Num(1)>> >>
                     \o Opt("validation_checks", checks, Arr(<<>>), absent, empty)),
                 Obj(<<>>), absent, empty)
          \o Opt("synthesis",
                 Obj(Opt("key_insights", insights, Arr(<<>>), absent, empty)),
                 Obj(<<>>), absent, empty))

\* the result of one agent of part_000; the three agents answer alike
AgentResult(absent, empty) ==
  LET steps == Arr(<< Str("s") >>)
      chain == Obj(<< <<"chain_id", Str("c")>>, <<"cause", Str("A")>>,
                      <<"effect", Str("B")>> >>
                   \o Opt("intermediary_steps", steps, Arr(<<>>), absent, empty))
      gaps  == Arr(<< Obj(<< <<"gap_id", Str("g")>> >>) >>)
      checks == Arr(<< Obj(<< <<"check_id", Str("v")>> >>) >>)
  IN  Obj(<< <<"overall_confidence", Num(72)>> >>
          \o Opt("uncertainty_metrics", Obj(<< <<"epistemic_uncertainty", Num(1)>> >>),
                 Obj(<<>>), absent, empty)
          \o Opt("knowledge_gaps", gaps, Arr(<<>>), absent, empty)
          \o Opt("causal_chains", Arr(<<chain>>), Arr(<<>>), absent, empty)
          \o Opt("validation_checks", checks, Arr(<<>>), absent, empty)
          \o Opt("recommendations", Arr(<<>>), Arr(<<>>), absent, empty)
          \o << <<"confidence_breakdown", Arr(<< Obj(<< <<"claim", Str("C")>> >>) >>)>> >>)

\* a ReasoningChallengerResult
ChallengerResult(absent, empty) ==
  LET alternatives == Arr(<< Obj(<< <<"supporting_evidence", Arr(<<>>)>>,
                                    <<"key_differences", Arr(<<>>)>> >>) >>)
      tests        == Arr(<< Obj(<< <<"test_scenario", Str("t")>> >>) >>)
      claims       == Arr(<< Obj(<< <<"severity", Str("minor")>> >>) >>)
  IN  Obj(<< <<"challenge_summary", Str("c")>> >>
          \o Opt("challenged_claims", claims, Arr(<<>>), absent, empty)
          \o Opt("alternative_explanations", alternatives, Arr(<<>>), absent, empty)
          \o Opt("stress_test_results", tests, Arr(<<>>), absent, empty))

\* a result that the workspace renders, kept short
Confidence(c) ==
  OrchestratorResult(c, {"validation_results", "synthesis"},
                     {"knowledge_gaps", "intermediary_steps"})

\* ```json\n<d>\n```
FencedJson(d) == Fence \o "json\n" \o d \o "\n" \o Fence

\* ```\n<d>\n```
FencedPlain(d) == Fence \o "\n" \o d \o "\n" \o Fence

FencedReply == Str(FencedJson(Ser(Confidence(72))))

BareReply == Str(Ser(Confidence(150)))

ObjectReply == Confidence(0)

MalformedReply == Str("oops")

\* what callAIAgent(agentId, prompt, []) settles with
OrchestratorReplies ==
  {Rejects, Resolves(FencedReply), Resolves(BareReply), Resolves(ObjectReply),
   Resolves(MalformedReply), Resolves(Null)}

AgentData == AgentResult({"knowledge_gaps"}, {"intermediary_steps", "validation_checks"})

Envelope(success, response) ==
  Obj(<< <<"success", Bool(success)>>, <<"response", response>> >>)

\* what callAIAgent(message, agentId) settles with
AgentReplies ==
  {Rejects,
   Resolves(Envelope(FALSE, Obj(<<>>))),
   Resolves(Envelope(TRUE, Obj(<< <<"result", AgentData>> >>)))}

\* localStorage when the page is first opened: nothing, or a blob that this
\* program did not write
InitialSlots == {Null, Str("{oops"), Str("{}")}

(***************************************************************************)
(* Response normalizer                                                     *)
(***************************************************************************)
Threw == [threw |-> TRUE, val |-> Undefined]

Returned(v) == [threw |-> FALSE, val |-> v]

\* the tagged fence is stripped, the untagged one is left in place
cleanJsonTaggedOnly(response) == Trim(ReplaceAll(response, Fence \o "json"))

\* handleAnalyze: response.replace(/```json\n?/g, '').replace(/```\n?/g, '').trim()
cleanJson(response) == Trim(ReplaceAll(ReplaceAll(response, Fence \o "json"), Fence))

\* parsedResult = JSON.parse(cleanJson): the value, or the SyntaxError
Parsed(r) == IF r.ok THEN Returned(r.val) ELSE Threw

\* handleAnalyze: the value of parsedResult, or the exception of JSON.parse
parsedResult(response) ==
  IF TypeOf(response) = "string"
    THEN Parsed(JSONParse(cleanJson(response.str)))
    ELSE Returned(response)

\* handleChallenge: response.replace(/```json\n?/g, '').replace(/```\n?/g, '').trim()
challengeCleanJson(response) ==
  Trim(ReplaceAll(ReplaceAll(response, Fence \o "json"), Fence))

\* handleChallenge: the value of parsedResult, or the exception of JSON.parse
challengeParsedResult(response) ==
  IF TypeOf(response) = "string"
    THEN Parsed(JSONParse(challengeCleanJson(response.str)))
    ELSE Returned(response)

\* parseAgentResponse of the decomposed flow: response.result when it is
\* truthy, null otherwise, null as well when reading it throws
parseAgentResponse(response) ==
  IF IsNullish(response) THEN Returned(Null)
  ELSE IF Truthy(Get(response, "result")) THEN Returned(Get(response, "result"))
  ELSE Returned(Null)

(***************************************************************************)
(* Topic label                                                             *)
(***************************************************************************)
UpperLetters == "ABCDEFGHIJKLMNOPQRSTUVWXYZ"

LowerLetters == "abcdefghijklmnopqrstuvwxyz"

LowerCh(c) ==
  IF \E i \in 1..26 : Ch(UpperLetters, i) = c
    THEN Ch(LowerLetters, CHOOSE i \in 1..26 : Ch(UpperLetters, i) = c)
    ELSE c

UpperCh(c) ==
  IF \E i \in 1..26 : Ch(LowerLetters, i) = c
    THEN Ch(UpperLetters, CHOOSE i \in 1..26 : Ch(LowerLetters, i) = c)
    ELSE c

\* s.toLowerCase()
RECURSIVE ToLowerCase(_)
ToLowerCase(s) ==
  IF s = "" THEN "" ELSE LowerCh(Ch(s, 1)) \o ToLowerCase(From(s, 2))

\* s.split(' ')
RECURSIVE SplitFrom(_, _, _)
SplitFrom(s, i, word) ==
  IF i > Len(s) THEN <<word>>
  ELSE IF Ch(s, i) = " " THEN <<word>> \o SplitFrom(s, i + 1, "")
  ELSE SplitFrom(s, i + 1, word \o Ch(s, i))

Split(s) == SplitFrom(s, 1, "")

keywords ==
  <<"employee", "student", "climate", "business", "health", "technology", "education">>

extractTopic(problem) ==
  LET words == Split(ToLowerCase(problem))
      hits  == {k \in 1..Len(keywords) :
                  \E w \in 1..Len(words) : Includes(words[w], keywords[k])}
      first == CHOOSE k \in hits : \A l \in hits : k <= l
  IN  IF hits = {} THEN "General"
      ELSE UpperCh(Ch(keywords[first], 1)) \o From(keywords[first], 2)

(***************************************************************************)
(* Analysis session store                                                  *)
(***************************************************************************)
\* Date.now().toString()
analysisId(now) == Str(NumToString(now))

\* new Date().toISOString(): the time, formatted
toISOString(now) == "T" \o NumToString(now) \o "Z"

\* handleAnalyze: newAnalysis
newAnalysisItem(problem, now) ==
  Obj(<< <<"id", analysisId(now)>>,
         <<"problem", Str(problem)>>,
         <<"timestamp", Num(now)>>,
         <<"confidence", Num(0)>>,
         <<"status", Str("in_progress")>>,
         <<"topic", Str(extractTopic(problem))>> >>)

\* runAnalysis: newAnalysis
newAnalysisHistory(problem, now) ==
  Obj(<< <<"id", analysisId(now)>>,
         <<"problem", Str(problem)>>,
         <<"date", Str(toISOString(now))>>,
         <<"confidence", Num(0)>>,
         <<"status", Str("in-progress")>> >>)

\* item.k = v
Assign(item, k, v) == Obj(Put(item.obj, k, v))

\* { ...item, ...patch }
RECURSIVE SpreadFrom(_, _, _)
SpreadFrom(p, patch, i) ==
  IF i > Len(patch) THEN p
  ELSE SpreadFrom(Put(p, patch[i][1], patch[i][2]), patch, i + 1)

Merge(item, patch) == Obj(SpreadFrom(item.obj, patch, 1))

\* a store that keeps the newest record only
appendReplacing(prev, record) == Arr(<<record>>)

\* a store that adds at the end
appendLast(prev, record) == Arr(prev.arr \o <<record>>)

\* prev => [newAnalysis, ...prev]
append(prev, record) == Arr(<<record>> \o prev.arr)

\* an update that finds no record with the id inserts one
updateOrInsert(prev, id, patch) ==
  LET mapped == [i \in 1..Len(prev.arr) |->
                   IF Get(prev.arr[i], "id") = id THEN Merge(prev.arr[i], patch)
                   ELSE prev.arr[i]]
  IN  IF \E i \in 1..Len(prev.arr) : Get(prev.arr[i], "id") = id
        THEN Arr(mapped)
        ELSE Arr(Append(mapped, Merge(Obj(<< <<"id", id>> >>), patch)))

\* prev => prev.map(item => item.id === id ? { ...item, ...patch } : item)
updateById(prev, id, patch) ==
  Arr([i \in 1..Len(prev.arr) |->
         IF Get(prev.arr[i], "id") = id THEN Merge(prev.arr[i], patch)
         ELSE prev.arr[i]])

\* item.id throws a TypeError for an item that is null or undefined
updateByIdThrows(prev) == \E i \in 1..Len(prev.arr) : IsNullish(prev.arr[i])

\* the update of a completed analysis leaves the confidence out
completedPatchKeepsConfidence(result, confidence) ==
  << <<"result", result>>, <<"status", Str("completed")>> >>

completedPatch(result, confidence) ==
  << <<"result", result>>, <<"confidence", confidence>>, <<"status", Str("completed")>> >>

failedPatch == << <<"status", Str("failed")>> >>

\* the save effect skips a history of one record as well
saveHistoryOverOne(v, h, s) ==
  IF v = "consolidated"
    THEN IF Len(h.arr) > 1 THEN JSONStringify(h) ELSE s
    ELSE JSONStringify(h)

\* the save effect: the slot after it ran for history h
saveHistory(v, h, s) ==
  IF v = "consolidated"
    THEN IF Len(h.arr) > 0 THEN JSONStringify(h) ELSE s
    ELSE JSONStringify(h)

\* try { setAnalysisHistory(JSON.parse(saved)) } catch (e) { console.error }
loadParsed(r) == IF r.ok THEN r.val ELSE Undefined

\* the load effect: the state update it queues, Undefined when it queues none
loadHistory(saved) ==
  IF Truthy(saved) THEN loadParsed(JSONParse(saved.str)) ELSE Undefined

\* the component body throws while it renders history h: h.filter is not a
\* function, or item.problem.toLowerCase() throws for some item
RenderThrows(h) ==
  \/ ~IsArr(h)
  \/ \E i \in 1..Len(h.arr) : ~IsStr(Get(h.arr[i], "problem"))

(***************************************************************************)
(* History search                                                          *)
(***************************************************************************)
\* text.toLowerCase().includes(searchQuery.toLowerCase())
Matches(text, query) == Includes(ToLowerCase(text), ToLowerCase(query))

\* the callback of filter:
\*   item.problem.toLowerCase().includes(...) || item.topic?.toLowerCase().includes(...)
\* in page.tsx, the first operand alone in part_000
matchesQuery(v, item, query) ==
  \/ Matches(Get(item, "problem").str, query)
  \/ /\ v = "consolidated"
     /\ ~IsNullish(Get(item, "topic"))
     /\ Matches(Get(item, "topic").str, query)

\* analysisHistory.filter(item => ...)
filteredHistory(v, h, query) ==
  Arr(SelectSeq(h.arr, LAMBDA item : matchesQuery(v, item, query)))

(***************************************************************************)
(* Rendering: what throws while the views are built                        *)
(***************************************************************************)
\* v.k1.k2...: the value, or the TypeError of reading a property of null or
\* undefined on the way
RECURSIVE Dig(_, _, _)
Dig(v, path, i) ==
  IF i > Len(path) THEN Returned(v)
  ELSE IF IsNullish(v) THEN Threw
  ELSE Dig(Get(v, path[i]), path, i + 1)

Read(v, path) == Dig(v, path, 1)

\* r.toFixed(n) throws for what is no number
ToFixedThrows(r) == r.threw \/ ~IsNum(r.val)

\* r.length throws for null and undefined
LengthThrows(r) == r.threw \/ IsNullish(r.val)

\* v.length > 0
NonEmpty(v) == (IsArr(v) /\ Len(v.arr) > 0) \/ (IsStr(v) /\ Len(v.str) > 0)

\* v.map(item => ... item.k ...) throws for what is no array and for an
\* item that is null or undefined
MapThrows(v) == ~IsArr(v) \/ \E i \in 1..Len(v.arr) : IsNullish(v.arr[i])

\* {r.length > 0 && r.map(...)}
ListThrows(r) == LengthThrows(r) \/ (NonEmpty(r.val) /\ MapThrows(r.val))

\* the items of chains render chain.intermediary_steps
StepsThrow(chains, guarded) ==
  \E i \in 1..Len(chains.arr) :
    LET steps == Read(chains.arr[i], <<"intermediary_steps">>)
    IN  IF guarded THEN ListThrows(steps) ELSE MapThrows(steps.val)

\* WorkspaceView of page.tsx: the results panel for currentAnalysis, with the
\* sections in expanded unfolded
WorkspaceViewThrows(ca, expanded) ==
  LET ua     == <<"uncertainty_assessment">>
      chains == Read(ca, <<"causal_analysis", "causal_chains">>)
      gaps   == Read(ca, ua \o <<"knowledge_gaps">>)
  IN  /\ Truthy(ca)
      /\ \/ ToFixedThrows(Read(ca, ua \o <<"overall_confidence">>))
         \/ ToFixedThrows(Read(ca, ua \o <<"uncertainty_metrics", "epistemic_uncertainty">>))
         \/ ToFixedThrows(Read(ca, ua \o <<"uncertainty_metrics", "aleatory_uncertainty">>))
         \/ LengthThrows(chains)
         \/ /\ "causal" \in expanded
            /\ (MapThrows(chains.val) \/ StepsThrow(chains.val, TRUE))
         \/ /\ "validation" \in expanded
            /\ \/ ToFixedThrows(Read(ca, <<"validation_results", "logical_consistency_score">>))
               \/ ToFixedThrows(Read(ca, <<"validation_results", "real_world_grounding_score">>))
               \/ MapThrows(Read(ca, <<"validation_results", "validation_checks">>).val)
         \/ /\ "insights" \in expanded
            /\ LET insights == Read(ca, <<"synthesis", "key_insights">>)
               IN  insights.threw \/ ~IsArr(insights.val)
         \/ LengthThrows(gaps)
         \/ "gaps" \in expanded /\ NonEmpty(gaps.val) /\ MapThrows(gaps.val)

\* {x && x.length > 0 && <Section items={x} />} of part_000
SectionThrows(x) == Truthy(x) /\ NonEmpty(x) /\ MapThrows(x)

\* the results panel of part_000 for currentAnalysis, with the causal chains
\* in expanded unfolded
AnalysisViewThrows(ca, expanded) ==
  LET uncertainty == Get(ca, "uncertainty")
      causal      == Get(ca, "causalAnalysis")
      validation  == Get(ca, "validation")
      chains      == GetOpt(causal, "causal_chains")
      breakdown   == GetOpt(uncertainty, "confidence_breakdown")
  IN  /\ Truthy(ca)
      /\ \/ Truthy(uncertainty) /\ IsNullish(Get(uncertainty, "uncertainty_metrics"))
         \/ SectionThrows(chains)
         \/ /\ "causal" \in expanded
            /\ Truthy(chains) /\ NonEmpty(chains) /\ StepsThrow(chains, FALSE)
         \/ /\ Truthy(validation)
            /\ \/ MapThrows(Get(validation, "validation_checks"))
               \/ ListThrows(Read(validation, <<"recommendations">>))
         \/ Truthy(breakdown) /\ MapThrows(breakdown)
         \/ SectionThrows(GetOpt(uncertainty, "knowledge_gaps"))
         \/ SectionThrows(GetOpt(uncertainty, "critical_assumptions"))
         \/ SectionThrows(GetOpt(causal, "confounders"))
         \/ SectionThrows(GetOpt(causal, "feedback_loops"))

\* {showChallengeModal && <ChallengeModal isChallenging={isChallenging} .../>}
\* of page.tsx: the component declares isChallengng, isChallenging is bound
\* nowhere, so building the props throws a ReferenceError
ChallengeModalThrows(ch) == ch.isOpen

\* ChallengeDialog of part_000
ChallengeDialogThrows(ch) ==
  LET response == ch.response
      stronger == Get(response, "strengthened_reasoning")
  IN  /\ ch.isOpen
      /\ ~ch.loading
      /\ Truthy(response)
      /\ \/ ListThrows(Read(response, <<"challenged_claims">>))
         \/ ListThrows(Read(response, <<"alternative_explanations">>))
         \/ ListThrows(Read(response, <<"stress_test_results">>))
         \/ /\ Truthy(stronger)
            /\ \/ ListThrows(Read(stronger, <<"revised_conclusions">>))
               \/ ListThrows(Read(stronger, <<"additional_evidence_needed">>))

\* rendering the page throws: the history list, the workspace when it is
\* the view, the overlay when it is open (part_000 builds the overlay in the
\* workspace branch only)
Crashes(v, h, vw, ca, ch) ==
  \/ RenderThrows(h)
  \/ v = "consolidated" /\ vw = Workspace[v] /\ WorkspaceViewThrows(ca, {})
  \/ v = "consolidated" /\ ChallengeModalThrows(ch)
  \/ v = "decomposed" /\ vw = Workspace[v] /\ AnalysisViewThrows(ca, {})
  \/ v = "decomposed" /\ vw = Workspace[v] /\ ChallengeDialogThrows(ch)

\* the phase after the component rendered this state
RenderedPhase(v, h, vw, ca, ch) ==
  IF Crashes(v, h, vw, ca, ch) THEN "crashed" ELSE "ready"

\* a crashed page is unmounted: what a handler that is still waiting for its
\* gateway call sets later changes nothing, the call is left out from there
AfterCrash(rendered, c, idle) == IF rendered = "crashed" THEN idle ELSE c

(***************************************************************************)
(* Page load                                                               *)
(***************************************************************************)
\* the state a mounting component starts from
Mounted ==
  /\ phase = "load"
  /\ queued = Undefined
  /\ analysisHistory = Arr(<<>>)
  /\ currentProblem = ""
  /\ isAnalyzing = FALSE
  /\ currentAnalysis = Null
  /\ call = IdleCall
  /\ lastAlert = ""
  /\ view = "dashboard"
  /\ searchQuery = ""
  /\ challenge = ClosedChallenge
  /\ challengeCalls = <<>>

Init ==
  /\ variant \in Variants
  /\ Mounted
  /\ slot \in InitialSlots
  /\ clock = 1
  /\ uncaught = FALSE
  /\ unloaded = Undefined
  /\ probe = NoProbe

\* useEffect(() => { const saved = localStorage.getItem(...) ... }, [])
LoadEffect ==
  /\ phase = "load"
  /\ queued' = loadHistory(slot)
  /\ phase' = "save"
  /\ UNCHANGED <<variant, analysisHistory, slot, currentProblem, isAnalyzing,
                 currentAnalysis, call, lastAlert, uncaught, unloaded, clock, probe, uiVars>>

\* useEffect(() => { localStorage.setItem(...) }, [history]), first run: the
\* history it sees is the initial one
SaveEffect ==
  /\ phase = "save"
  /\ slot' = saveHistory(variant, analysisHistory, slot)
  /\ phase' = IF queued = Undefined THEN "ready" ELSE "apply"
  /\ UNCHANGED <<variant, queued, analysisHistory, currentProblem, isAnalyzing,
                 currentAnalysis, call, lastAlert, uncaught, unloaded, clock, probe, uiVars>>

\* the queued setState is applied, the component renders again and the save
\* effect runs for the loaded history
ApplyLoaded ==
  /\ phase = "apply"
  /\ analysisHistory' = queued
  /\ queued' = Undefined
  /\ IF RenderThrows(queued)
       THEN phase' = "crashed" /\ slot' = slot
       ELSE phase' = "ready" /\ slot' = saveHistory(variant, queued, slot)
  /\ UNCHANGED <<variant, currentProblem, isAnalyzing, currentAnalysis, call,
                 lastAlert, uncaught, unloaded, clock, probe, uiVars>>

\* the user leaves the page and opens it again: the component state and the
\* pending call are gone, the storage slot stays
Reload ==
  /\ phase \in {"ready", "crashed"}
  /\ unloaded' = IF phase = "ready" THEN analysisHistory ELSE Undefined
  /\ phase' = "load"
  /\ queued' = Undefined
  /\ analysisHistory' = Arr(<<>>)
  /\ currentProblem' = ""
  /\ isAnalyzing' = FALSE
  /\ currentAnalysis' = Null
  /\ call' = IdleCall
  /\ lastAlert' = ""
  /\ view' = "dashboard"
  /\ searchQuery' = ""
  /\ challenge' = ClosedChallenge
  /\ challengeCalls' = <<>>
  /\ UNCHANGED <<variant, slot, uncaught, clock, probe>>

\* the present time is the id of a record of the history
TimeTold ==
  /\ phase = "ready"
  /\ \E i \in 1..Len(analysisHistory.arr) :
       Get(analysisHistory.arr[i], "id") = analysisId(clock)

\* time passes. Date.now() is read for the id and the date of a new record
\* and for nothing else, so the clock is moved only when a record carries
\* the present time: a run in which it moves earlier is the same run with
\* other numbers
Tick ==
  /\ clock < MaxClock
  /\ TimeTold
  /\ clock' = clock + 1
  /\ UNCHANGED <<variant, pageVars, probe, uiVars>>

(***************************************************************************)
(* Workspace input                                                         *)
(***************************************************************************)
\* <Textarea onChange={(e) => setCurrentProblem(e.target.value)} />; the
\* decomposed page disables it while an analysis runs
SetProblem(text) ==
  /\ phase = "ready"
  /\ view = Workspace[variant]
  /\ ~challenge.isOpen
  /\ variant = "decomposed" => ~isAnalyzing
  /\ text # currentProblem
  /\ currentProblem' = text
  /\ UNCHANGED <<variant, phase, queued, analysisHistory, slot, isAnalyzing,
                 currentAnalysis, call, lastAlert, uncaught, unloaded, clock, probe, uiVars>>

(***************************************************************************)
(* Dashboard input                                                         *)
(***************************************************************************)
\* typing in the search box stores the filtered list as the history
SetSearchQueryStoring(query) ==
  /\ phase = "ready"
  /\ view = "dashboard"
  /\ query # searchQuery
  /\ searchQuery' = query
  /\ analysisHistory' = filteredHistory(variant, analysisHistory, query)
  /\ UNCHANGED <<variant, phase, queued, slot, currentProblem, isAnalyzing,
                 currentAnalysis, call, lastAlert, uncaught, unloaded, clock,
                 view, challenge, challengeCalls>>

\* <Input value={searchQuery} onChange={(e) => setSearchQuery(e.target.value)} />
SetSearchQuery(query) ==
  /\ phase = "ready"
  /\ view = "dashboard"
  /\ query # searchQuery
  /\ searchQuery' = query
  /\ UNCHANGED <<variant, phase, queued, analysisHistory, slot, currentProblem,
                 isAnalyzing, currentAnalysis, call, lastAlert, uncaught, unloaded,
                 clock, view, challenge, challengeCalls>>

(***************************************************************************)
(* Consolidated flow: handleAnalyze                                        *)
(***************************************************************************)
\* <Button disabled={isAnalyzing || currentProblem.length < 10}>
analyzeDisabled == isAnalyzing \/ Len(currentProblem) < MinProblemLength

\* if (!currentProblem.trim() || currentProblem.length < 10) { alert; return }
analyzeRejects(problem) == Trim(problem) = "" \/ Len(problem) < MinProblemLength

RejectAnalyze ==
  /\ variant = "consolidated"
  /\ phase = "ready"
  /\ view = Workspace[variant]
  /\ ~analyzeDisabled
  /\ analyzeRejects(currentProblem)
  /\ lastAlert' = MinLengthAlert
  /\ UNCHANGED <<variant, phase, queued, analysisHistory, slot, currentProblem,
                 isAnalyzing, currentAnalysis, call, uncaught, unloaded, clock, probe, uiVars>>

\* handleAnalyze up to its await: the record is appended, the history saved,
\* the orchestrator called
HandleAnalyze ==
  /\ variant = "consolidated"
  /\ phase = "ready"
  /\ view = Workspace[variant]
  /\ ~analyzeDisabled
  /\ ~analyzeRejects(currentProblem)
  /\ Len(analysisHistory.arr) < MaxHistory
  /\ LET newAnalysis == newAnalysisItem(currentProblem, clock)
         history     == append(analysisHistory, newAnalysis)
     IN  /\ isAnalyzing' = TRUE
         /\ currentAnalysis' = Null
         /\ analysisHistory' = history
         /\ slot' = saveHistory(variant, history, slot)
         /\ call' = [st |-> "pending", step |-> "orchestrator",
                     agent |-> REASONING_ORCHESTRATOR_ID,
                     message |-> currentProblem, id |-> analysisId(clock),
                     rec |-> newAnalysis, reply |-> NoReply]
  /\ lastAlert' = ""
  /\ unloaded' = Undefined
  /\ UNCHANGED <<variant, phase, queued, currentProblem, uncaught, clock, probe, uiVars>>
\* a gateway that sends the user back to the dashboard when it settles
GatewaySettlesToDashboard(reply) ==
  /\ call.st = "pending"
  /\ call' = [call EXCEPT !.st = "settled", !.reply = reply]
  /\ view' = "dashboard"
  /\ UNCHANGED <<variant, phase, queued, analysisHistory, slot, currentProblem,
                 isAnalyzing, currentAnalysis, lastAlert, uncaught, unloaded,
                 clock, probe, searchQuery, challenge, challengeCalls>>

\* the gateway call of the running handler settles
GatewaySettles(reply) ==
  /\ call.st = "pending"
  /\ call' = [call EXCEPT !.st = "settled", !.reply = reply]
  /\ UNCHANGED <<variant, phase, queued, analysisHistory, slot, currentProblem,
                 isAnalyzing, currentAnalysis, lastAlert, uncaught, unloaded,
                 clock, probe, uiVars>>

OrchestratorSettles ==
  /\ variant = "consolidated"
  /\ \E reply \in OrchestratorReplies : GatewaySettles(reply)

\* const confidence = parsedResult.uncertainty_assessment?.overall_confidence || 0
\* for the outcome p of the parsing: reading a property of null throws
analyzeConfidence(p) ==
  IF p.threw THEN Threw
  ELSE IF IsNullish(p.val) THEN Threw
  ELSE Returned(
         [parsedResult |-> p.val,
          confidence |-> OrElse(GetOpt(Get(p.val, "uncertainty_assessment"),
                                       "overall_confidence"), Num(0))])

\* the try block of handleAnalyze after the await: parsedResult and
\* confidence, or the exception thrown on the way
analyzeTry(reply) ==
  IF reply.kind = "reject" THEN Threw
  ELSE analyzeConfidence(parsedResult(reply.val))

\* an exception thrown after the await leaves handleAnalyze: never, the try
\* block spans the call and the parsing, the catch block does not rethrow
analyzeEscapes(threw) == FALSE

\* handleAnalyze after its await
ResumeAnalyze ==
  /\ variant = "consolidated"
  /\ call.st = "settled"
  /\ \E try \in {analyzeTry(call.reply)} :
       \E history \in {IF try.threw
                          THEN updateById(analysisHistory, call.id, failedPatch)
                          ELSE updateById(analysisHistory, call.id,
                                 completedPatch(try.val.parsedResult,
                                                try.val.confidence))} :
         /\ currentAnalysis' = IF try.threw THEN currentAnalysis ELSE try.val.parsedResult
         /\ analysisHistory' = history
         /\ phase' = RenderedPhase(variant, history, view, currentAnalysis', challenge)
         /\ slot' = IF phase' = "crashed" THEN slot
                    ELSE saveHistory(variant, history, slot)
         /\ lastAlert' = IF try.threw THEN FailedAlert ELSE ""
         /\ uncaught' = (uncaught \/ analyzeEscapes(try.threw))
  /\ isAnalyzing' = FALSE
  /\ call' = IdleCall
  /\ challengeCalls' = AfterCrash(phase', challengeCalls, <<>>)
  /\ unloaded' = Undefined
  /\ UNCHANGED <<variant, queued, currentProblem, clock, probe, view, searchQuery,
                 challenge>>

(***************************************************************************)
(* Decomposed flow: runAnalysis                                            *)
(***************************************************************************)
\* <Button disabled={isAnalyzing || problemInput.trim().length === 0}>
runDisabled == isAnalyzing \/ Len(Trim(currentProblem)) = 0

\* if (!problemInput.trim()) return
runRejects(problem) == Trim(problem) = ""

\* runAnalysis up to its first await: the causal analysis agent is called
RunAnalysis ==
  /\ variant = "decomposed"
  /\ phase = "ready"
  /\ view = Workspace[variant]
  /\ ~challenge.isOpen
  /\ ~runDisabled
  /\ ~runRejects(currentProblem)
  /\ Len(analysisHistory.arr) < MaxHistory
  /\ isAnalyzing' = TRUE
  /\ call' = [st |-> "pending", step |-> "causal",
              agent |-> AGENT_IDS.causalAnalysis,
              message |-> CausalPrompt \o currentProblem, id |-> analysisId(clock),
              rec |-> newAnalysisHistory(currentProblem, clock), reply |-> NoReply]
  /\ UNCHANGED <<variant, phase, queued, analysisHistory, slot, currentProblem,
                 currentAnalysis, lastAlert, uncaught, unloaded, clock, probe, uiVars>>

\* the answers drawn for the calls of one analysis: a gateway that answers
\* the first call with success = false answers the later ones alike, and one
\* that answers it with a result goes on doing so; any call may reject
SameService(reply) ==
  \/ call.step = "causal"
  \/ reply.kind = "reject"
  \/ Truthy(Get(reply.val, "success")) = Has(call.rec, "causalAnalysis")

AgentSettles ==
  /\ variant = "decomposed"
  /\ \E reply \in AgentReplies : SameService(reply) /\ GatewaySettles(reply)

\* one step of the try block of runAnalysis after its await: newAnalysis
\* after the step, and whether the step threw
\*   if (response.success) { newAnalysis[field] = parseAgentResponse(response.response) }
\* and for the uncertainty step
\*   newAnalysis.confidence = uncertaintyData.overall_confidence || 0
runStep(reply, newAnalysis, field) ==
  LET response == reply.val
      data     == parseAgentResponse(Get(response, "response")).val
      assigned == Assign(newAnalysis, field, data)
  IN  IF reply.kind = "reject" \/ IsNullish(response)
        THEN [threw |-> TRUE, rec |-> newAnalysis]
      ELSE IF ~Truthy(Get(response, "success"))
        THEN [threw |-> FALSE, rec |-> newAnalysis]
      ELSE IF field # "uncertainty"
        THEN [threw |-> FALSE, rec |-> assigned]
      ELSE IF IsNullish(data)
        THEN [threw |-> TRUE, rec |-> assigned]
      ELSE [threw |-> FALSE,
            rec |-> Assign(assigned, "confidence",
                           OrElse(Get(data, "overall_confidence"), Num(0)))]

\* an exception thrown after an await leaves runAnalysis: never
runEscapes(threw) == FALSE

\* a catch block that calls the same agent again instead of giving up
RunFailsRetrying(newAnalysis) ==
  /\ call' = [call EXCEPT !.st = "pending", !.rec = newAnalysis, !.reply = NoReply]
  /\ UNCHANGED <<analysisHistory, slot, unloaded, currentAnalysis, isAnalyzing,
                 phase, challengeCalls>>

\* catch: newAnalysis.status = 'failed'; setCurrentAnalysis(newAnalysis)
\* finally: setIsAnalyzing(false)
RunFails(newAnalysis) ==
  /\ currentAnalysis' = Assign(newAnalysis, "status", Str("failed"))
  /\ isAnalyzing' = FALSE
  /\ call' = IdleCall
  /\ phase' = RenderedPhase(variant, analysisHistory, view, currentAnalysis', challenge)
  /\ challengeCalls' = AfterCrash(phase', challengeCalls, <<>>)
  /\ UNCHANGED <<analysisHistory, slot, unloaded>>

\* the next agent is called with the problem text
RunCalls(newAnalysis, step, agent, prompt) ==
  /\ call' = [call EXCEPT !.st = "pending", !.step = step, !.agent = agent,
                          !.message = prompt \o Get(newAnalysis, "problem").str,
                          !.rec = newAnalysis, !.reply = NoReply]
  /\ UNCHANGED <<analysisHistory, slot, unloaded, currentAnalysis, isAnalyzing,
                 phase, challengeCalls>>

\* runAnalysis after the causal analysis call
ResumeCausal ==
  /\ variant = "decomposed"
  /\ call.st = "settled"
  /\ call.step = "causal"
  /\ LET step == runStep(call.reply, call.rec, "causalAnalysis")
     IN  /\ IF step.threw
              THEN RunFails(step.rec)
              ELSE RunCalls(step.rec, "validation", AGENT_IDS.commonSenseValidator,
                            ValidationPrompt)
         /\ uncaught' = (uncaught \/ runEscapes(step.threw))
  /\ UNCHANGED <<variant, queued, currentProblem, lastAlert, clock, probe, view,
                 searchQuery, challenge>>

\* runAnalysis after the common sense validation call
ResumeValidation ==
  /\ variant = "decomposed"
  /\ call.st = "settled"
  /\ call.step = "validation"
  /\ LET step == runStep(call.reply, call.rec, "validation")
     IN  /\ IF step.threw
              THEN RunFails(step.rec)
              ELSE RunCalls(step.rec, "uncertainty", AGENT_IDS.uncertaintyQuantifier,
                            UncertaintyPrompt)
         /\ uncaught' = (uncaught \/ runEscapes(step.threw))
  /\ UNCHANGED <<variant, queued, currentProblem, lastAlert, clock, probe, view,
                 searchQuery, challenge>>

\* runAnalysis after the uncertainty quantification call: the record is
\* completed, shown, put at the head of the history and the history saved
ResumeUncertainty ==
  /\ variant = "decomposed"
  /\ call.st = "settled"
  /\ call.step = "uncertainty"
  /\ LET step == runStep(call.reply, call.rec, "uncertainty")
         newAnalysis == Assign(step.rec, "status", Str("completed"))
         history == append(analysisHistory, newAnalysis)
     IN  /\ IF step.threw
              THEN RunFails(step.rec)
              ELSE /\ currentAnalysis' = newAnalysis
                   /\ analysisHistory' = history
                   /\ phase' = RenderedPhase(variant, history, view, newAnalysis, challenge)
                   /\ slot' = IF phase' = "crashed" THEN slot
                              ELSE saveHistory(variant, history, slot)
                   /\ challengeCalls' = AfterCrash(phase', challengeCalls, <<>>)
                   /\ unloaded' = Undefined
                   /\ isAnalyzing' = FALSE
                   /\ call' = IdleCall
         /\ uncaught' = (uncaught \/ runEscapes(step.threw))
  /\ UNCHANGED <<variant, queued, currentProblem, lastAlert, clock, probe, view,
                 searchQuery, challenge>>

(***************************************************************************)
(* Navigation                                                              *)
(***************************************************************************)
\* onClick={() => setView('dashboard')}: the Dashboard button of the header
\* (page.tsx) and of the sidebar (part_000)
ShowDashboard ==
  /\ phase = "ready"
  /\ ~challenge.isOpen
  /\ view # "dashboard"
  /\ view' = "dashboard"
  /\ UNCHANGED <<variant, phase, queued, analysisHistory, slot, currentProblem,
                 isAnalyzing, currentAnalysis, call, lastAlert, uncaught, unloaded,
                 clock, probe, searchQuery, challenge, challengeCalls>>

\* onClick={() => setView('workspace')}: New Analysis and Start Analysis of
\* the dashboard and the Workspace button of the header of page.tsx
ShowWorkspace ==
  /\ variant = "consolidated"
  /\ phase = "ready"
  /\ ~challenge.isOpen
  /\ view # "workspace"
  /\ view' = "workspace"
  /\ phase' = RenderedPhase(variant, analysisHistory, view', currentAnalysis, challenge)
  /\ call' = AfterCrash(phase', call, IdleCall)
  /\ challengeCalls' = AfterCrash(phase', challengeCalls, <<>>)
  /\ UNCHANGED <<variant, queued, analysisHistory, slot, currentProblem, isAnalyzing,
                 currentAnalysis, lastAlert, uncaught, unloaded, clock, probe,
                 searchQuery, challenge>>

\* filteredHistory.map(...): the cards of the dashboard, by their place in
\* the history
Cards == IF phase = "ready" THEN 1..Len(analysisHistory.arr) ELSE {}

\* the card of a record on the dashboard of page.tsx:
\*   if (analysis.result) { setCurrentProblem(...); setCurrentAnalysis(...); setView('workspace') }
OpenAnalysis(i) ==
  /\ variant = "consolidated"
  /\ phase = "ready"
  /\ ~challenge.isOpen
  /\ view = "dashboard"
  /\ matchesQuery(variant, analysisHistory.arr[i], searchQuery)
  /\ Truthy(Get(analysisHistory.arr[i], "result"))
  /\ currentProblem' = Get(analysisHistory.arr[i], "problem").str
  /\ currentAnalysis' = Get(analysisHistory.arr[i], "result")
  /\ view' = "workspace"
  /\ phase' = RenderedPhase(variant, analysisHistory, view', currentAnalysis', challenge)
  /\ call' = AfterCrash(phase', call, IdleCall)
  /\ challengeCalls' = AfterCrash(phase', challengeCalls, <<>>)
  /\ UNCHANGED <<variant, queued, analysisHistory, slot, isAnalyzing, lastAlert,
                 uncaught, unloaded, clock, probe, searchQuery, challenge>>

\* startNewAnalysis of part_000: New Analysis of the sidebar and of the dashboard
startNewAnalysis ==
  /\ variant = "decomposed"
  /\ phase = "ready"
  /\ ~challenge.isOpen
  /\ <<currentProblem, currentAnalysis, view>> # <<"", Null, "analysis">>
  /\ currentProblem' = ""
  /\ currentAnalysis' = Null
  /\ view' = "analysis"
  /\ UNCHANGED <<variant, phase, queued, analysisHistory, slot, isAnalyzing, call,
                 lastAlert, uncaught, unloaded, clock, probe, searchQuery, challenge,
                 challengeCalls>>

\* viewAnalysis of part_000: the card of a record on the dashboard
viewAnalysis(i) ==
  /\ variant = "decomposed"
  /\ phase = "ready"
  /\ ~challenge.isOpen
  /\ view = "dashboard"
  /\ matchesQuery(variant, analysisHistory.arr[i], searchQuery)
  /\ currentAnalysis' = analysisHistory.arr[i]
  /\ view' = "analysis"
  /\ currentProblem' = Get(analysisHistory.arr[i], "problem").str
  /\ phase' = RenderedPhase(variant, analysisHistory, view', currentAnalysis', challenge)
  /\ call' = AfterCrash(phase', call, IdleCall)
  /\ challengeCalls' = AfterCrash(phase', challengeCalls, <<>>)
  /\ UNCHANGED <<variant, queued, analysisHistory, slot, isAnalyzing, lastAlert,
                 uncaught, unloaded, clock, probe, searchQuery, challenge>>

(***************************************************************************)
(* Challenge overlay                                                       *)
(***************************************************************************)
\* what the reasoning challenger of part_000 settles with
ChallengeReplies ==
  {Rejects,
   Resolves(Envelope(FALSE, Obj(<<>>))),
   Resolves(Envelope(TRUE, Obj(<< <<"result", ChallengerResult({}, {})>> >>)))}

\* the Challenge buttons of the expanded causal section of page.tsx:
\* onClick={() => handleChallenge(chain.effect)}
Conclusions(ca) ==
  LET chains == GetOpt(GetOpt(ca, "causal_analysis"), "causal_chains")
  IN  IF IsArr(chains)
        THEN {Get(chains.arr[i], "effect").str : i \in 1..Len(chains.arr)}
        ELSE {}

\* the Challenge buttons of CausalChainsSection of part_000:
\* onChallenge(`${chain.cause} causes ${chain.effect}`)
ChainClaims(ca) ==
  LET chains == GetOpt(GetOpt(ca, "causalAnalysis"), "causal_chains")
  IN  IF IsArr(chains)
        THEN {Get(chains.arr[i], "cause").str \o " causes "
                \o Get(chains.arr[i], "effect").str : i \in 1..Len(chains.arr)}
        ELSE {}

\* the Challenge buttons of ConfidenceBreakdownSection of part_000:
\* onChallenge(item.claim)
BreakdownClaims(ca) ==
  LET breakdown == GetOpt(GetOpt(ca, "uncertainty"), "confidence_breakdown")
  IN  IF IsArr(breakdown) /\ Truthy(breakdown)
        THEN {Get(breakdown.arr[i], "claim").str : i \in 1..Len(breakdown.arr)}
        ELSE {}

\* the claims the analysis view of part_000 offers for a challenge
Claims(ca) == ChainClaims(ca) \cup BreakdownClaims(ca)

\* handleChallenge of page.tsx up to its await: the overlay is opened, the
\* challenger is called, and the component renders the open overlay
handleChallenge(conclusion) ==
  /\ variant = "consolidated"
  /\ phase = "ready"
  /\ view = Workspace[variant]
  /\ ~challenge.isOpen
  /\ conclusion \in Conclusions(currentAnalysis)
  /\ Len(challengeCalls) < MaxChallengeCalls
  /\ challenge' = [isOpen |-> TRUE, claim |-> conclusion, response |-> Null,
                   loading |-> TRUE]
  /\ phase' = RenderedPhase(variant, analysisHistory, view, currentAnalysis, challenge')
  /\ challengeCalls' =
       AfterCrash(phase',
                  Append(challengeCalls,
                         [agent |-> REASONING_CHALLENGER_ID,
                          message |-> ChallengePrompt(conclusion, currentProblem)]),
                  <<>>)
  /\ call' = AfterCrash(phase', call, IdleCall)
  /\ UNCHANGED <<variant, queued, analysisHistory, slot, currentProblem, isAnalyzing,
                 currentAnalysis, lastAlert, uncaught, unloaded, clock, probe, view,
                 searchQuery>>

\* challengeClaim of part_000 up to its await; the open dialog covers the
\* page, its buttons are out of reach until it is dismissed
challengeClaim(claim) ==
  /\ variant = "decomposed"
  /\ phase = "ready"
  /\ view = Workspace[variant]
  /\ ~challenge.isOpen
  /\ claim \in Claims(currentAnalysis)
  /\ Len(challengeCalls) < MaxChallengeCalls
  /\ challenge' = [isOpen |-> TRUE, claim |-> claim, response |-> Null,
                   loading |-> TRUE]
  /\ challengeCalls' =
       Append(challengeCalls,
              [agent |-> AGENT_IDS.reasoningChallenger,
               message |-> ClaimPrompt \o claim])
  /\ UNCHANGED <<variant, phase, queued, analysisHistory, slot, currentProblem,
                 isAnalyzing, currentAnalysis, call, lastAlert, uncaught, unloaded,
                 clock, probe, view, searchQuery>>

\* without(calls, k): the calls in flight but the k-th
without(calls, k) == SubSeq(calls, 1, k - 1) \o SubSeq(calls, k + 1, Len(calls))

\* the try block of challengeClaim after the await: the response to show,
\* Undefined when none is set
challengeTry(reply) ==
  IF reply.kind = "reject" THEN Undefined
  ELSE IF Truthy(Get(reply.val, "success"))
    THEN parseAgentResponse(Get(reply.val, "response")).val
    ELSE Undefined

\* the gateway settles the k-th challenge call in flight and challengeClaim
\* goes on after its await, before any other event is handled: the response
\* is put into the dialog state as it is now, the catch block only logs,
\* loading ends
ChallengeSettles(k, reply) ==
  /\ variant = "decomposed"
  /\ phase = "ready"
  /\ LET challengeData == challengeTry(reply)
     IN  challenge' = [challenge EXCEPT
                         !.response = IF challengeData = Undefined THEN @
                                      ELSE challengeData,
                         !.loading = FALSE]
  /\ phase' = RenderedPhase(variant, analysisHistory, view, currentAnalysis, challenge')
  /\ challengeCalls' = AfterCrash(phase', without(challengeCalls, k), <<>>)
  /\ call' = AfterCrash(phase', call, IdleCall)
  /\ UNCHANGED <<variant, queued, analysisHistory, slot, currentProblem, isAnalyzing,
                 currentAnalysis, lastAlert, uncaught, unloaded, clock, probe, view,
                 searchQuery>>

\* onClose={() => setChallengeModal({ isOpen: false, claim: '', response: null })}
CloseChallenge ==
  /\ variant = "decomposed"
  /\ phase = "ready"
  /\ challenge.isOpen
  /\ challenge' = [ClosedChallenge EXCEPT !.loading = challenge.loading]
  /\ UNCHANGED <<variant, phase, queued, analysisHistory, slot, currentProblem,
                 isAnalyzing, currentAnalysis, call, lastAlert, uncaught, unloaded,
                 clock, probe, view, searchQuery, challengeCalls>>

(***************************************************************************)
(* The pages                                                               *)
(***************************************************************************)
Next ==
  \/ LoadEffect
  \/ SaveEffect
  \/ ApplyLoaded
  \/ Reload
  \/ Tick
  \/ \E text \in ProblemTexts[variant] : SetProblem(text)
  \/ RejectAnalyze
  \/ HandleAnalyze
  \/ OrchestratorSettles
  \/ ResumeAnalyze
  \/ RunAnalysis
  \/ AgentSettles
  \/ ResumeCausal
  \/ ResumeValidation
  \/ ResumeUncertainty
  \/ ShowDashboard
  \/ ShowWorkspace
  \/ \E i \in Cards : OpenAnalysis(i)
  \/ startNewAnalysis
  \/ \E i \in Cards : viewAnalysis(i)

Spec == Init /\ [][Next]_vars

\* the pages with the challenge overlay, within one visit: the page is not
\* left and opened again
NextUI ==
  \/ LoadEffect
  \/ SaveEffect
  \/ ApplyLoaded
  \/ Tick
  \/ \E text \in ProblemTexts[variant] : SetProblem(text)
  \/ RejectAnalyze
  \/ HandleAnalyze
  \/ OrchestratorSettles
  \/ ResumeAnalyze
  \/ RunAnalysis
  \/ AgentSettles
  \/ ResumeCausal
  \/ ResumeValidation
  \/ ResumeUncertainty
  \/ ShowDashboard
  \/ ShowWorkspace
  \/ \E i \in Cards : OpenAnalysis(i)
  \/ startNewAnalysis
  \/ \E i \in Cards : viewAnalysis(i)
  \/ \E conclusion \in Conclusions(currentAnalysis) : handleChallenge(conclusion)
  \/ \E claim \in ChainClaims(currentAnalysis) : challengeClaim(claim)
  \/ \E k \in 1..Len(challengeCalls) : \E reply \in ChallengeReplies :
       ChallengeSettles(k, reply)
  \/ CloseChallenge

SpecUI == Init /\ [][NextUI]_vars

(***************************************************************************)
(* The challenge dialog of part_000 on its own: the page shows an analysis *)
(* that the three agents answered, and the user challenges its claims, the *)
(* causal chain and the confidence breakdown alike                         *)
(***************************************************************************)
\* newAnalysis as runAnalysis completes it when every agent answers
AnsweredAnalysis(problem, now) ==
  LET answer   == Resolves(Envelope(TRUE, Obj(<< <<"result", AgentData>> >>)))
      causal   == runStep(answer, newAnalysisHistory(problem, now), "causalAnalysis").rec
      valid    == runStep(answer, causal, "validation").rec
      quantify == runStep(answer, valid, "uncertainty").rec
  IN  Assign(quantify, "status", Str("completed"))

\* the history after n such analyses, one for each clock reading up to n
AnsweredHistory(n) == Arr([i \in 1..n |-> AnsweredAnalysis("short", n + 1 - i)])

\* the page after the last of them
ChallengeInit ==
  /\ variant = "decomposed"
  /\ phase = "ready"
  /\ queued = Undefined
  /\ currentProblem = "short"
  /\ isAnalyzing = FALSE
  /\ \E n \in 1..MaxHistory :
       /\ n <= MaxClock
       /\ clock = n
       /\ currentAnalysis = AnsweredAnalysis("short", n)
       /\ analysisHistory = AnsweredHistory(n)
       /\ slot = saveHistory("decomposed", AnsweredHistory(n), Null)
  /\ call = IdleCall
  /\ lastAlert = ""
  /\ view = "analysis"
  /\ searchQuery = ""
  /\ challenge = ClosedChallenge
  /\ challengeCalls = <<>>
  /\ uncaught = FALSE
  /\ unloaded = Undefined
  /\ probe = NoProbe

ChallengeNext ==
  \/ \E claim \in Claims(currentAnalysis) : challengeClaim(claim)
  \/ \E k \in 1..Len(challengeCalls) : \E reply \in ChallengeReplies :
       ChallengeSettles(k, reply)
  \/ CloseChallenge
  \/ ShowDashboard
  \/ startNewAnalysis
  \/ \E i \in Cards : viewAnalysis(i)

SpecChallenge == ChallengeInit /\ [][ChallengeNext]_vars

(***************************************************************************)
(* The response normalizer on its own: a gateway text is drawn, wrapped in *)
(* a fence style and handed to the normalizer of one flow                  *)
(***************************************************************************)
\* pieces of text a string value is put together from
MaxChunks == 3

Chunks == <<BT, Fence, "json", "\n", "x">>

RECURSIVE ChunkTexts(_)
ChunkTexts(n) ==
  IF n = 0 THEN {""}
  ELSE LET shorter == ChunkTexts(n - 1)
       IN  shorter \cup {t \o Chunks[i] : t \in shorter, i \in 1..Len(Chunks)}

\* JSON documents: an object, compact as JSON.stringify writes it or laid
\* out over several lines, and a bare string
JsonDocs ==
  UNION {{Ser(Obj(<< <<"k", Str(t)>> >>)),
          "{\n  \"k\": " \o Quote(t) \o "\n}\n",
          Quote(t)} : t \in ChunkTexts(MaxChunks)}

\* replies that are no JSON document
MalformedTexts == {"", "oops", "{", "{\"k\":}", "I cannot answer that."}

FenceStyles == {"bare", "json", "plain", "jsonInline", "plainInline"}

Wrap(style, d) ==
  CASE style = "bare" -> d
    [] style = "json" -> FencedJson(d)
    [] style = "plain" -> FencedPlain(d)
    [] style = "jsonInline" -> Fence \o "json" \o d \o Fence
    [] style = "plainInline" -> Fence \o d \o Fence

\* the page is not used: it stays as it is constructed
PageAtRest ==
  /\ variant = "consolidated"
  /\ Mounted
  /\ slot = Null
  /\ clock = 1
  /\ uncaught = FALSE
  /\ unloaded = Undefined

NormInit ==
  /\ PageAtRest
  /\ \E d \in JsonDocs \cup MalformedTexts :
       probe = [spec |-> "norm", op |-> "reply", doc |-> d, style |-> "bare",
                out |-> Returned(Undefined)]

Normalize(op, style, out) ==
  /\ probe.spec = "norm"
  /\ probe.op = "reply"
  /\ probe' = [probe EXCEPT !.op = op, !.style = style, !.out = out]
  /\ UNCHANGED <<variant, pageVars, clock>>

\* handleAnalyze normalizes the reply
NormalizeAnalysis ==
  \E style \in FenceStyles :
    Normalize("analysis", style, parsedResult(Str(Wrap(style, probe.doc))))

\* handleChallenge normalizes the reply
NormalizeChallenge ==
  \E style \in FenceStyles :
    Normalize("challenge", style, challengeParsedResult(Str(Wrap(style, probe.doc))))

\* runAnalysis and challengeClaim normalize the reply
NormalizeAgent ==
  \E style \in FenceStyles :
    Normalize("agent", style, parseAgentResponse(Str(Wrap(style, probe.doc))))

NormNext ==
  \/ NormalizeAnalysis
  \/ NormalizeChallenge
  \/ NormalizeAgent

SpecNorm == NormInit /\ [][NormNext]_vars

(***************************************************************************)
(* The session store on its own: a history of well-formed records is       *)
(* drawn and one store operation applied to it                             *)
(***************************************************************************)
StoreIds == {analysisId(n) : n \in 1..(MaxClock + 1)}

\* records as handleAnalyze leaves them: pending, failed, completed
StoreRecords ==
  UNION {{newAnalysisItem(ValidProblem, n),
          Merge(newAnalysisItem(ValidProblem, n), failedPatch),
          Merge(newAnalysisItem(ValidProblem, n), completedPatch(Confidence(72), Num(72)))}
         : n \in 1..MaxClock}

StoreHistories ==
  UNION {[1..n -> StoreRecords] : n \in 0..MaxHistory}

StorePatches == {failedPatch, completedPatch(Confidence(72), Num(72))}

StoreInit ==
  /\ PageAtRest
  /\ \E h \in StoreHistories :
       probe = [spec |-> "store", op |-> "history", before |-> Arr(h),
                id |-> Undefined, threw |-> FALSE, after |-> Arr(h)]

\* setAnalysisHistory(prev => [newAnalysis, ...prev])
StoreAppend ==
  /\ probe.spec = "store"
  /\ probe.op = "history"
  /\ \E record \in StoreRecords :
       probe' = [probe EXCEPT !.op = "append", !.id = Get(record, "id"),
                              !.after = append(probe.before, record)]
  /\ UNCHANGED <<variant, pageVars, clock>>

\* setAnalysisHistory(prev => prev.map(item => item.id === analysisId ? ... : item))
StoreUpdate ==
  /\ probe.spec = "store"
  /\ probe.op = "history"
  /\ \E id \in StoreIds, patch \in StorePatches :
       probe' = [probe EXCEPT !.op = "update", !.id = id,
                              !.threw = updateByIdThrows(probe.before),
                              !.after = updateById(probe.before, id, patch)]
  /\ UNCHANGED <<variant, pageVars, clock>>

StoreNext ==
  \/ StoreAppend
  \/ StoreUpdate

SpecStore == StoreInit /\ [][StoreNext]_vars

(***************************************************************************)
(* Claims on the response normalizer                                       *)
(***************************************************************************)
Normalized == probe.spec = "norm" /\ probe.op # "reply"

\* C1: for every JSON document d, the analysis flow and the challenge flow
\* normalize a reply that wraps d in markdown fences, tagged json or
\* untagged, to exactly what they normalize the string d itself to, also
\* when string values of d hold backticks
C1_FencedLikeUnwrapped ==
  /\ Normalized /\ probe.op = "analysis" /\ JSONParse(probe.doc).ok
       => probe.out = parsedResult(Str(probe.doc))
  /\ Normalized /\ probe.op = "challenge" /\ JSONParse(probe.doc).ok
       => probe.out = challengeParsedResult(Str(probe.doc))

\* a fenced document with a fence inside a string value went through the
\* analysis normalizer and was parsed
C1_Witness ==
  /\ Normalized
  /\ probe.op = "analysis"
  /\ probe.style = "plain"
  /\ JSONParse(probe.doc).ok
  /\ Includes(probe.doc, Fence)
  /\ ~probe.out.threw
  /\ IsObj(probe.out.val)

\* C2: a reply string that is no JSON document once its fences are stripped
\* ends the normalization in a failure; no default or empty result stands
\* in for it, in the consolidated flow and in parseAgentResponse
C2_MalformedFails ==
  Normalized /\ ~JSONParse(cleanJson(Wrap(probe.style, probe.doc))).ok
    => probe.out.threw

(***************************************************************************)
(* Claims on the session store                                             *)
(***************************************************************************)
IdsOf(h) == {Get(h.arr[i], "id") : i \in 1..Len(h.arr)}

\* C9: an update by an id that no record of the history carries leaves the
\* length of the history, its order and every field of every record as they
\* were, and raises no error
C9_UnknownIdNoOp ==
  probe.spec = "store" /\ probe.op = "update" /\ probe.id \notin IdsOf(probe.before)
    => probe.after = probe.before /\ ~probe.threw

\* a history of two records was updated by an id neither of them carries
C9_Witness ==
  /\ probe.spec = "store"
  /\ probe.op = "update"
  /\ Len(probe.before.arr) >= 2
  /\ probe.id \notin IdsOf(probe.before)
  /\ Len(probe.after.arr) = Len(probe.before.arr)

(***************************************************************************)
(* Claims on the submit handlers                                           *)
(***************************************************************************)
\* the running submit handler takes its step after an await and returns
HandlerReturns ==
  /\ call.st = "settled"
  /\ call' = IdleCall
  /\ phase' = phase

\* the reply the handler resumes with is a rejection or a string that is no
\* JSON document
ReplyFails ==
  \/ call.reply.kind = "reject"
  \/ /\ call.reply.kind = "resolve"
     /\ IsStr(call.reply.val)
     /\ ~JSONParse(cleanJson(call.reply.val.str)).ok

RecordsOf(h) == IF IsArr(h) THEN {h.arr[i] : i \in 1..Len(h.arr)} ELSE {}

StatusOf(rec) == Get(rec, "status")

\* C3: when the gateway call of a primary analysis rejects or answers a
\* malformed string, the history holds the record of that submission with
\* status failed, the confidence it was created with and no result, and no
\* exception leaves the handler
C3_FailureIsRecorded ==
  [][HandlerReturns /\ ReplyFails
       => /\ \E rec \in RecordsOf(analysisHistory') :
               /\ Get(rec, "id") = call.id
               /\ StatusOf(rec) = Str("failed")
               /\ Get(rec, "confidence") = Num(0)
               /\ ~Has(rec, "result")
          /\ ~uncaught']_vars

ConfidenceValues == {0, 72, 150}

\* replies that carry the document with overall_confidence c: the object
\* itself, its text, its text inside a tagged or an untagged fence
RepliesWith(c) ==
  {Confidence(c), Str(Ser(Confidence(c))), Str(FencedJson(Ser(Confidence(c)))),
   Str(FencedPlain(Ser(Confidence(c))))}

\* C4: when the reply to an accepted submission, a fenced string, a bare
\* JSON string or an object, parses to a result whose
\* uncertainty_assessment.overall_confidence is c, the record created for
\* the submission ends completed, with confidence c and that result
C4_CompletedWithConfidence ==
  [][\A c \in ConfidenceValues :
       /\ variant = "consolidated"
       /\ HandlerReturns
       /\ call.reply.kind = "resolve"
       /\ call.reply.val \in RepliesWith(c)
       => /\ Len(analysisHistory'.arr) = Len(analysisHistory.arr)
          /\ analysisHistory'.arr[1] =
               Merge(call.rec, << <<"result", Confidence(c)>>,
                                  <<"confidence", Num(c)>>,
                                  <<"status", Str("completed")>> >>)]_vars

\* the record of a submission answered with a fenced document of confidence
\* 72 is completed with confidence 72
C4_Witness ==
  /\ variant = "consolidated"
  /\ phase = "ready"
  /\ call = IdleCall
  /\ Len(analysisHistory.arr) >= 1
  /\ StatusOf(analysisHistory.arr[1]) = Str("completed")
  /\ Get(analysisHistory.arr[1], "confidence") = Num(72)
  /\ Get(analysisHistory.arr[1], "result") = Confidence(72)

TooShortOrBlank(problem) ==
  ~IsStr(problem) \/ Len(problem.str) < MinProblemLength \/ Trim(problem.str) = ""

\* C5: a problem text shorter than the minimum length, or blank, is rejected
\* before a gateway call is issued and before a record is appended, in every
\* variant of the submit handler
C5_ShortNeverSubmitted ==
  /\ call.st # "idle" => ~TooShortOrBlank(Get(call.rec, "problem"))
  /\ \A rec \in RecordsOf(analysisHistory) : ~TooShortOrBlank(Get(rec, "problem"))

\* the result of a record: the parsed reply, or a section of the decomposed
\* analysis
HasResult(rec) ==
  \E k \in {"result", "causalAnalysis", "validation", "uncertainty"} :
    ~IsNullish(Get(rec, k))

\* C6: in every reachable state a record with status completed has a result
\* and a record with status failed has none
C6_StatusMatchesResult ==
  \A rec \in RecordsOf(analysisHistory) :
    /\ StatusOf(rec) = Str("completed") => HasResult(rec)
    /\ StatusOf(rec) = Str("failed") => ~HasResult(rec)

\* C8: after a record was appended and the history is updated by its id, the
\* history holds exactly one record with that id, it is the appended record
\* with the patch merged over it, and every record is where it was
C8_AppendThenUpdate ==
  [][variant = "consolidated" /\ HandlerReturns
       => LET try   == analyzeTry(call.reply)
              patch == IF try.threw THEN failedPatch
                       ELSE completedPatch(try.val.parsedResult, try.val.confidence)
              at    == {i \in 1..Len(analysisHistory'.arr) :
                          Get(analysisHistory'.arr[i], "id") = call.id}
          IN  /\ Cardinality(at) = 1
              /\ Len(analysisHistory'.arr) = Len(analysisHistory.arr)
              /\ \A i \in 1..Len(analysisHistory'.arr) :
                   analysisHistory'.arr[i] =
                     IF i \in at THEN Merge(call.rec, patch)
                     ELSE analysisHistory.arr[i]]_vars

\* C10: a history of zero or more records that was persisted is, after a
\* fresh page load, deeply equal to what it was
C10_RoundTrip ==
  phase = "ready" /\ unloaded # Undefined => analysisHistory = unloaded

\* a page that was left with a record in its history has loaded again
C10_Witness ==
  /\ phase = "ready"
  /\ unloaded # Undefined
  /\ Len(analysisHistory.arr) >= 1
  /\ Has(analysisHistory.arr[1], "problem")
  /\ Includes(Get(analysisHistory.arr[1], "problem").str, "\"")

(***************************************************************************)
(* The history search on its own: a page that holds a history of records   *)
(* it wrote shows its dashboard, and the user types into the search box    *)
(***************************************************************************)
SearchProblems == {ValidProblem, "Why SKY?", "climate"}

\* records as the submit handlers leave them in the history
SearchRecords ==
  [consolidated |->
     {Merge(newAnalysisItem(p, n), failedPatch) : p \in SearchProblems, n \in 1..MaxClock},
   decomposed |->
     {Assign(newAnalysisHistory(p, n), "status", Str("completed")) :
        p \in SearchProblems, n \in 1..MaxClock}]

SearchHistories(v) == UNION {[1..n -> SearchRecords[v]] : n \in 0..MaxHistory}

Queries == {"", "employee", "EMPLOYEE", "sky", "GEN", "x\"", "zzz"}

SearchInit ==
  /\ variant \in Variants
  /\ phase = "ready"
  /\ queued = Undefined
  /\ currentProblem = ""
  /\ isAnalyzing = FALSE
  /\ currentAnalysis = Null
  /\ call = IdleCall
  /\ lastAlert = ""
  /\ view = "dashboard"
  /\ searchQuery = ""
  /\ challenge = ClosedChallenge
  /\ challengeCalls = <<>>
  /\ clock = MaxClock
  /\ uncaught = FALSE
  /\ unloaded = Undefined
  /\ \E h \in SearchHistories(variant) :
       /\ analysisHistory = Arr(h)
       /\ slot = saveHistory(variant, Arr(h), Null)
       /\ probe = [spec |-> "search", history |-> Arr(h),
                   slot |-> saveHistory(variant, Arr(h), Null), shown |-> Arr(h)]

\* the search box changes and the dashboard renders the filtered history
Search ==
  /\ probe.spec = "search"
  /\ \E query \in Queries : SetSearchQuery(query)
  /\ probe' = [probe EXCEPT
                 !.shown = filteredHistory(variant, analysisHistory', searchQuery')]

SearchNext == Search

SpecSearch == SearchInit /\ [][SearchNext]_vars

(***************************************************************************)
(* Rendering on its own: a result that lacks one section, or holds it      *)
(* empty, is shown in the workspace and in the challenge overlay           *)
(***************************************************************************)
RenderSections ==
  {"uncertainty_assessment", "uncertainty_metrics", "causal_chains",
   "intermediary_steps", "validation_checks", "key_insights", "knowledge_gaps",
   "alternative_explanations", "stress_test_results"}

ExpandableSections == {"causal", "validation", "insights", "gaps"}

\* the record runAnalysis completes, its three sections answered alike; the
\* uncertainty assessment is its section uncertainty
AnalysisRecord(absent, empty) ==
  Obj(newAnalysisHistory("short", 1).obj
      \o << <<"causalAnalysis", AgentResult(absent, empty)>>,
            <<"validation", AgentResult(absent, empty)>> >>
      \o (IF "uncertainty_assessment" \in absent THEN <<>>
          ELSE IF "uncertainty_assessment" \in empty
            THEN << <<"uncertainty", Obj(<<>>)>> >>
          ELSE << <<"uncertainty", AgentResult(absent, empty)>> >>))

RenderInit ==
  /\ variant \in Variants
  /\ Mounted
  /\ slot = Null
  /\ clock = 1
  /\ uncaught = FALSE
  /\ unloaded = Undefined
  /\ \E section \in RenderSections, how \in {"absent", "empty"},
        expanded \in {{}, ExpandableSections} :
       probe = [spec |-> "render", op |-> "result", section |-> section,
                how |-> how, expanded |-> expanded, threw |-> FALSE]

Rendered(op, threw) ==
  /\ probe.spec = "render"
  /\ probe.op = "result"
  /\ probe' = [probe EXCEPT !.op = op, !.threw = threw]
  /\ UNCHANGED <<variant, pageVars, clock>>

\* the workspace shows the result
RenderWorkspace ==
  LET absent == IF probe.how = "absent" THEN {probe.section} ELSE {}
      empty  == IF probe.how = "empty" THEN {probe.section} ELSE {}
  IN  Rendered("workspace",
        IF variant = "consolidated"
          THEN WorkspaceViewThrows(OrchestratorResult(72, absent, empty), probe.expanded)
          ELSE AnalysisViewThrows(AnalysisRecord(absent, empty), probe.expanded))

\* the overlay shows the answer of the challenger, the call has settled
RenderOverlay ==
  LET absent == IF probe.how = "absent" THEN {probe.section} ELSE {}
      empty  == IF probe.how = "empty" THEN {probe.section} ELSE {}
      ch     == [isOpen |-> TRUE, claim |-> "E",
                 response |-> ChallengerResult(absent, empty), loading |-> FALSE]
  IN  Rendered("overlay",
        IF variant = "consolidated" THEN ChallengeModalThrows(ch)
        ELSE ChallengeDialogThrows(ch))

RenderNext ==
  \/ RenderWorkspace
  \/ RenderOverlay

SpecRender == RenderInit /\ [][RenderNext]_vars

(***************************************************************************)
(* Claims on rendering                                                     *)
(***************************************************************************)
\* C20: a parsed result in which one of the sections or nested lists is
\* absent or empty is rendered by the workspace and by the challenge overlay
\* without an exception
C20_PartialResultRenders ==
  probe.spec = "render" => ~probe.threw

(***************************************************************************)
(* Claims on the history search                                            *)
(***************************************************************************)
\* text contains query when letter case is ignored
ContainsNoCase(text, query) ==
  \E i \in 1..(Len(text) + 1) :
    /\ i + Len(query) - 1 <= Len(text)
    /\ \A j \in 1..Len(query) : LowerCh(Ch(text, i + j - 1)) = LowerCh(Ch(query, j))

\* the record's problem text or the topic label derived from it contains
\* the query
Wanted(item, query) ==
  \/ ContainsNoCase(Get(item, "problem").str, query)
  \/ ContainsNoCase(extractTopic(Get(item, "problem").str), query)

LoadCompletes == phase \in {"save", "apply"} /\ phase' \notin {"save", "apply"}

\* C11: whatever the storage slot holds when the page is opened, nothing, a
\* text that is no JSON or JSON that is no sequence of records, the page
\* loads: the mount ends with the page rendered and the history a sequence
C11_StartupNeverFails ==
  [][LoadCompletes => phase' = "ready" /\ IsArr(analysisHistory')]_vars

(***************************************************************************)
(* Progress: the effects of a mount run, a gateway call settles, and the   *)
(* handler that awaits it resumes; what the user does is left free.        *)
(*                                                                         *)
(* LoadEffect, ApplyLoaded and the Resume steps are enabled exactly when   *)
(* their guard holds (phase = "load", phase = "apply", call.st =           *)
(* "settled") and each falsifies its guard, so weak fairness of the step   *)
(* is the recurrence of the negated guard; it is written that way because  *)
(* these steps parse the stored text.                                      *)
(***************************************************************************)
Progress ==
  /\ WF_vars(SaveEffect)
  /\ WF_vars(OrchestratorSettles)
  /\ WF_vars(AgentSettles)
  /\ []<>(phase # "load")
  /\ []<>(phase # "apply")
  /\ []<>(call.st # "settled")

FairSpec == Spec /\ Progress

\* the history, in memory or persisted for the next page load, holds a
\* pending record with the id of time n
PendingIn(h, n) ==
  \E rec \in RecordsOf(h) :
    /\ Get(rec, "id") = analysisId(n)
    /\ StatusOf(rec) \in {Str("in_progress"), Str("in-progress")}

Pending(n) ==
  \/ PendingIn(analysisHistory, n)
  \/ phase # "ready" /\ IsStr(slot) /\ JSONParse(slot.str).ok
       /\ PendingIn(JSONParse(slot.str).val, n)

\* C7: a record that is pending is completed or failed in the end, given
\* that gateway calls settle, also when the history was persisted and loaded
\* again by a later page load
C7_PendingResolves ==
  \A n \in 1..MaxClock : Pending(n) ~> ~Pending(n)

(***************************************************************************)
(* Claims on navigation, the challenge overlay and the gateway calls       *)
(***************************************************************************)
\* a step of the challenge overlay: it is opened, its call settles, it is
\* dismissed
ChallengeOpens ==
  \/ \E conclusion \in Conclusions(currentAnalysis) : handleChallenge(conclusion)
  \/ \E claim \in ChainClaims(currentAnalysis) : challengeClaim(claim)

ChallengeEvent ==
  \/ ChallengeOpens
  \/ \E k \in 1..Len(challengeCalls) : \E reply \in ChallengeReplies :
       ChallengeSettles(k, reply)
  \/ CloseChallenge

\* a step that carries the user from the dashboard to the workspace: New
\* Analysis, Start Analysis and the Workspace tab (one handler in page.tsx),
\* or the card of a saved record
ToWorkspace ==
  \/ ShowWorkspace
  \/ startNewAnalysis
  \/ \E i \in Cards : OpenAnalysis(i)
  \/ \E i \in Cards : viewAnalysis(i)

C15_OverlayLeavesPageAlone ==
  /\ [][ChallengeEvent =>
          /\ phase' = "ready"
          /\ view' = view
          /\ analysisHistory' = analysisHistory
          /\ currentAnalysis' = currentAnalysis]_vars
  /\ [][challenge.isOpen /\ ~challenge'.isOpen /\ phase' # "load" =>
          CloseChallenge]_vars

\* C16: at most one primary analysis call and at most one challenge call
\* is in flight at any time: a submission is accepted only while no primary
\* call is out, a challenge only while no challenge call is out
C16_OneCallOutstanding ==
  /\ [](Len(challengeCalls) <= 1)
  /\ [][HandleAnalyze \/ RunAnalysis => call.st = "idle"]_vars
  /\ [][ChallengeOpens => challengeCalls = <<>>]_vars

\* the records of history h that carry another id than id, in their order
Others(h, id) == SelectSeq(h.arr, LAMBDA rec : Get(rec, "id") # id)

\* history h holds a record with this id that is completed or failed
Finished(h, id) ==
  \E i \in 1..Len(h.arr) :
    /\ Get(h.arr[i], "id") = id
    /\ Get(h.arr[i], "status") \in {Str("completed"), Str("failed")}

\* C17: when a submit handler returns, its analysis being completed or
\* failed, the history holds the record of that id with the final status,
\* and after every append and every update the storage slot is the
\* serialization of the history in memory, in both variants
C17_FinalStatusStoredAndPersisted ==
  /\ [][HandlerReturns =>
          /\ Finished(analysisHistory', call.id)
          /\ slot' = JSONStringify(analysisHistory')]_vars
  /\ [][analysisHistory' # analysisHistory /\ phase = "ready" /\ phase' = "ready" =>
          slot' = JSONStringify(analysisHistory')]_vars

\* C18: runAnalysis calls the causal analysis agent first, the common sense
\* validator only when that call has settled, the uncertainty quantifier
\* only when the validator's call has settled, and no other call in between
C18_AgentsCalledInOrder ==
  [][variant = "decomposed" /\ call'.st = "pending" /\ call' # call =>
       \/ /\ call.st = "idle"
          /\ call'.step = "causal"
          /\ call'.agent = "698584ddc613a65b3c4193c4"
       \/ /\ call.st = "settled" /\ call.step = "causal"
          /\ call'.step = "validation"
          /\ call'.agent = "698584fc49f279d47448a5b9"
       \/ /\ call.st = "settled" /\ call.step = "validation"
          /\ call'.step = "uncertainty"
          /\ call'.agent = "69858517ab4bf65a66ad0765"]_vars

\* the third call is out
C18_Witness ==
  /\ variant = "decomposed"
  /\ call.st = "pending"
  /\ call.step = "uncertainty"

\* C19: the user has left the workspace while the analysis was pending;
\* when the call has settled and the handler returns, the record of that id
\* is in the history with the final status and the records of other ids are
\* what they were
C19_UpdateStillAppliedById ==
  [][HandlerReturns /\ view = "dashboard" =>
       /\ Finished(analysisHistory', call.id)
       /\ Others(analysisHistory', call.id) = Others(analysisHistory, call.id)]_vars

(***************************************************************************)
(* Claims on the outcome of the gateway calls                              *)
(***************************************************************************)
\* the gateway signals a failure for the call the handler resumes with: the
\* call rejects, the envelope is missing, its text is no JSON document, or
\* it carries success = false
GatewayFails ==
  \/ ReplyFails
  \/ call.reply.kind = "resolve" /\ IsNullish(call.reply.val)
  \/ call.reply.kind = "resolve" /\ Get(call.reply.val, "success") = Bool(FALSE)

\* the records of history h with this id and this status
WithStatus(h, id, status) ==
  {i \in 1..Len(h.arr) : Get(h.arr[i], "id") = id /\ StatusOf(h.arr[i]) = Str(status)}

\* C21: when the gateway signals a failure for a call of an analysis, the
\* handler does not go on to complete the analysis: when it returns, the
\* record of the analysis is in the history with status failed and no
\* record of it was added or turned to completed
C21_GatewayFailureFails ==
  [][call.st = "settled" /\ GatewayFails /\ call' # call /\ phase' = phase =>
       /\ call' = IdleCall
       /\ WithStatus(analysisHistory', call.id, "failed") # {}
       /\ Cardinality(WithStatus(analysisHistory', call.id, "completed"))
            <= Cardinality(WithStatus(analysisHistory, call.id, "completed"))]_vars

\* C23: while a primary gateway call is out, the history holds exactly one
\* record with the id of the submission whose status is pending
C23_PendingRecordWhileCallIsOut ==
  call.st = "pending" =>
    Cardinality({i \in 1..Len(analysisHistory.arr) :
                   /\ Get(analysisHistory.arr[i], "id") = call.id
                   /\ StatusOf(analysisHistory.arr[i])
                        \in {Str("in_progress"), Str("in-progress")}}) = 1

(***************************************************************************)
(* Claims on the number of gateway calls                                   *)
(***************************************************************************)
\* the user submits the problem text
Submits == HandleAnalyze \/ RunAnalysis

\* runAnalysis goes from an agent that answered to the next one of the same
\* analysis
NextAgent ==
  /\ variant = "decomposed"
  /\ call.st = "settled"
  /\ call.reply.kind = "resolve"
  /\ call'.id = call.id
  /\ <<call.agent, call'.agent>> \in
       {<<AGENT_IDS.causalAnalysis, AGENT_IDS.commonSenseValidator>>,
        <<AGENT_IDS.commonSenseValidator, AGENT_IDS.uncertaintyQuantifier>>}

\* C22: a gateway call is issued only by a step of the user or, in part_000,
\* as the next agent's call after an agent answered: a primary call is out
\* after a step only if the user submitted or the handler went on to the next
\* agent, never again to the same one and never after a rejection, and a
\* challenge call is added only by a press on a Challenge button, one call
\* for one press, the calls already out left as they are
C22_NoAutomaticRetry ==
  [][/\ call'.st = "pending" /\ call' # call => Submits \/ NextAgent
     /\ Len(challengeCalls') > Len(challengeCalls) =>
          /\ ChallengeOpens
          /\ Len(challengeCalls') = Len(challengeCalls) + 1
          /\ SubSeq(challengeCalls', 1, Len(challengeCalls)) = challengeCalls]_vars

\* a primary call has failed and a challenge call is out: no call is
\* repeated
C22_Witness ==
  /\ phase = "ready"
  /\ call = IdleCall
  /\ StatusOf(currentAnalysis) = Str("failed")
  /\ Len(challengeCalls) = 1

(***************************************************************************)
(* Claims on the contents of the history                                   *)
(***************************************************************************)
\* history h2 holds a record for every id of h1 and is no shorter
Keeps(h1, h2) ==
  /\ IdsOf(h1) \subseteq IdsOf(h2)
  /\ Len(h2.arr) >= Len(h1.arr)

\* C24: no step of a page that is up removes a record: the history is no
\* shorter after the step and holds every id it held before
C24_NoStepRemovesARecord ==
  [][phase = "ready" /\ phase' = "ready" => Keeps(analysisHistory, analysisHistory')]_vars

\* C24, across a reload: the page that is up again holds every id the page
\* held when it was left, and is no shorter
C24_ReloadKeepsRecords ==
  phase = "ready" /\ unloaded # Undefined => Keeps(unloaded, analysisHistory)

CreatedAt(rec) == CHOOSE now \in 1..MaxClock : Get(rec, "id") = analysisId(now)

\* a step that adds a record to the history of a page that is up
Appends == phase = "ready" /\ Len(analysisHistory'.arr) = Len(analysisHistory.arr) + 1

\* C25, the step: the record of the submission is at the first place of the
\* new history and the records stored before follow it, in their order and
\* with their contents
C25_AppendsAtTheFront ==
  [][Appends =>
       /\ Get(Head(analysisHistory'.arr), "id")
            = IF call.st = "idle" THEN call'.id ELSE call.id
       /\ Tail(analysisHistory'.arr) = analysisHistory.arr]_vars

\* C25, the order: of two records the one nearer the front was created no
\* earlier than the other
C25_NewestFirst ==
  IsArr(analysisHistory) =>
    \A i, j \in 1..Len(analysisHistory.arr) :
      i < j => CreatedAt(analysisHistory.arr[i]) >= CreatedAt(analysisHistory.arr[j])

\* C25 as one property
C25_AppendKeepsOrder == C25_AppendsAtTheFront /\ []C25_NewestFirst

\* a record created at a later clock reading stands before an earlier one
C25_Witness ==
  /\ phase = "ready"
  /\ Len(analysisHistory.arr) = 2
  /\ CreatedAt(analysisHistory.arr[1]) > CreatedAt(analysisHistory.arr[2])

\* C26: the records of the history have pairwise distinct ids
C26_IdsAreDistinct ==
  IsArr(analysisHistory) =>
    \A i, j \in 1..Len(analysisHistory.arr) :
      i # j => Get(analysisHistory.arr[i], "id") # Get(analysisHistory.arr[j], "id")

\* C27: the confidence of a record of the history is unset or a number
\* from 0 to 100
C27_ConfidenceInRange ==
  \A rec \in RecordsOf(analysisHistory) :
    \/ IsNullish(Get(rec, "confidence"))
    \/ /\ IsNum(Get(rec, "confidence"))
       /\ Get(rec, "confidence").num \in 0..100

(***************************************************************************)
(* Claims on replies that arrive late                                      *)
(***************************************************************************)
\* a challenge call settles on a page that stays up
ChallengeReturns ==
  /\ phase = "ready"
  /\ phase' = "ready"
  /\ Len(challengeCalls') < Len(challengeCalls)

\* C28: when a challenge call settles while the overlay is open and the
\* response or the loading flag of the overlay changes, the call is one that
\* was issued for the claim the overlay shows
C28_ReplyIsForTheShownClaim ==
  [][ChallengeReturns /\ challenge.isOpen /\ challenge' # challenge =>
       \E k \in 1..Len(challengeCalls) :
         /\ challengeCalls' = without(challengeCalls, k)
         /\ challengeCalls[k].message = ClaimPrompt \o challenge.claim]_vars

\* the workspace of page.tsx shows a saved record that was opened after the
\* pending submission: handleAnalyze cleared the result when it began, and
\* only a card of the dashboard sets one while its call is out
OpenedSinceSubmit ==
  /\ variant = "consolidated"
  /\ call.st = "settled"
  /\ currentAnalysis # Null

\* C29: when the reply to a submission arrives after the user opened a saved
\* record, the handler returns and the result shown is still that of the
\* opened record
C29_OpenedRecordStaysShown ==
  [][HandlerReturns /\ OpenedSinceSubmit => currentAnalysis' = currentAnalysis]_vars

(***************************************************************************)
(* Claims on the storage slot while the page starts                        *)
(***************************************************************************)
\* the records the storage slot holds
SlotRecords ==
  IF IsStr(slot) /\ JSONParse(slot.str).ok
    THEN RecordsOf(JSONParse(slot.str).val)
    ELSE {}

\* C30: from the moment a page that was left is opened again, through its
\* load effect, its save effect and the render of the loaded history, the
\* storage slot holds every record the page had persisted when it was left
C30_SlotKeepsPersistedRecords ==
  unloaded # Undefined => RecordsOf(unloaded) \subseteq SlotRecords

====
